---------------------------- MODULE Spec2Model ----------------------------
(***************************************************************************)
(* A model of the client-side utility layer of the real-estate site:       *)
(*   - the mortgage-rate fetch-and-cache helper (js/utils.js),             *)
(*   - the amortization calculator calculateMonthlyPayment,                *)
(*   - the debounce helper,                                                *)
(*   - the theme toggle (the anonymous script that defines ThemeManager).  *)
(* JavaScript values are tagged records, so that null, undefined, numbers, *)
(* strings and objects can be told apart as the code tells them apart.     *)
(***************************************************************************)
EXTENDS Integers, Sequences, FiniteSets, Bags

VARIABLES
    \* ---- mortgage rates (js/utils.js 154-202)
    cachedRates,      \* let cachedRates: null or the snapshot object
    ratesCacheTime,   \* let ratesCacheTime: null or a number (ms)
    now,              \* what Date.now() returns
    ticks,            \* history: how many times the clock has been moved
    calls,            \* the bag of activations of fetchMortgageRates that have not returned
    nextRef,          \* identity of the next object the code allocates
    lastDone,         \* history: the activation that returned last
    liveDone,         \* history: the successful network fetches, in order of completion
    \* ---- amortization
    amArgs,           \* arguments of the last calculateMonthlyPayment call
    amResult,         \* how that call completed
    amInterest,       \* how calculateTotalInterest completed on its result
    \* ---- debounce
    dWait,            \* the wait argument of debounce(func, wait)
    dNow,             \* the timer clock
    timeout,          \* let timeout (the closure variable)
    nextTimer,        \* the id the next setTimeout returns
    timers,           \* the browser's pending timers
    dlog,             \* history: calls of executedFunction and of func
    \* ---- theme
    storedTheme,      \* localStorage[THEME_KEY]: null or a string
    dataTheme,        \* documentElement's data-theme attribute
    themeInit,        \* initTheme has run on this page
    toggleBtn,        \* the #theme-toggle element, when the page has one
    themeLog          \* history: the theme operations of this page

ratesVars == <<cachedRates, ratesCacheTime, now, ticks, calls, nextRef, lastDone, liveDone>>
amortVars == <<amArgs, amResult, amInterest>>
debounceVars == <<dWait, dNow, timeout, nextTimer, timers, dlog>>
themeVars == <<storedTheme, dataTheme, themeInit, toggleBtn, themeLog>>
vars == <<ratesVars, amortVars, debounceVars, themeVars>>

----------------------------------------------------------------------------
(* JavaScript values *)

Undefined == [t |-> "undefined"]
JNull == [t |-> "null"]
Num(n) == [t |-> "number", v |-> n]
Str(s) == [t |-> "string", v |-> s]
Bool(b) == [t |-> "boolean", v |-> b]
\* an object parsed from JSON: a map from property names to values
Obj(f) == [t |-> "object", f |-> f]
\* an object the code allocates: ref is its identity
NewObj(ref, f) == [t |-> "object", ref |-> ref, f |-> f]
\* the string new Date(ms).toISOString() gives, named by the instant it encodes
IsoString(ms) == [t |-> "string", iso |-> ms]

IsNullish(x) == x.t \in {"undefined", "null"}

\* ToBoolean
Truthy(x) ==
    CASE x.t = "undefined" -> FALSE
      [] x.t = "null" -> FALSE
      [] x.t = "boolean" -> x.v
      [] x.t = "number" -> x.v # 0
      [] x.t = "string" -> x # Str("")
      [] OTHER -> TRUE

\* x.k : reading a property of undefined or null throws a TypeError
CanGet(x) == ~IsNullish(x)
Get(x, k) ==
    IF x.t = "object" /\ k \in DOMAIN x.f THEN x.f[k] ELSE Undefined

\* how a function activation ends
Return(v) == [kind |-> "return", value |-> v]
Throw(e) == [kind |-> "throw", error |-> e]
Pending == [kind |-> "pending"]


----------------------------------------------------------------------------
(* Mortgage rates: fetchMortgageRates, js/utils.js 154-202 *)

MaxInFlight == 2
MaxFetches == 3
MaxTicks == 2

RATES_CACHE_DURATION == 60 * 60 * 1000

\* Rates are written in hundredths of a percent: 6.5 is Num(650).
RatesOk == Obj([thirtyYear |-> Obj([rate |-> Num(689)]), fifteenYear |-> Obj([rate |-> Num(610)])])

\* The JSON documents the endpoint is modelled to answer with (response.json()).
Bodies ==
    { \* the expected shape
      Obj([rates |-> RatesOk, source |-> Str("Freddie Mac"), lastUpdated |-> Str("2024-01-04")]),
      \* the expected shape with the optional error flag set
      Obj([rates |-> RatesOk, source |-> Str("Freddie Mac"), lastUpdated |-> Str("2024-01-04"),
           error |-> Bool(TRUE)]),
      \* no rates at all
      Obj([source |-> Str("Freddie Mac"), lastUpdated |-> Str("2024-01-04")]),
      \* rates.thirtyYear has no rate
      Obj([rates |-> Obj([thirtyYear |-> Obj([x \in {} |-> Undefined]),
                          fifteenYear |-> Obj([rate |-> Num(610)])]),
           source |-> Str("Freddie Mac"), lastUpdated |-> Str("2024-01-04")]),
      \* rates.fifteenYear.rate is a string, source is missing
      Obj([rates |-> Obj([thirtyYear |-> Obj([rate |-> Num(689)]),
                          fifteenYear |-> Obj([rate |-> Str("6.10")])]),
           lastUpdated |-> Str("2024-01-04")]) }

\* variants: the comparison turned round, and the boundary instant taken as fresh
IsFresh_Inverted(cr, ct, t) ==
    Truthy(cr) /\ Truthy(ct) /\ (t - ct.v > RATES_CACHE_DURATION)
IsFresh_Inclusive(cr, ct, t) ==
    Truthy(cr) /\ Truthy(ct) /\ (t - ct.v <= RATES_CACHE_DURATION)
\* line 167: cachedRates && ratesCacheTime && (Date.now() - ratesCacheTime < RATES_CACHE_DURATION)
IsFresh(cr, ct, t) ==
    Truthy(cr) /\ Truthy(ct) /\ (t - ct.v < RATES_CACHE_DURATION)

\* variant: a fifteen-year fallback rate of 5.5
FallbackRates_WrongFifteen(t, ref) ==
    NewObj(ref, [thirtyYear |-> Num(650), fifteenYear |-> Num(550),
                 source |-> Str("Fallback (offline)"),
                 lastUpdated |-> IsoString(t), isLive |-> Bool(FALSE)])
\* lines 194-200: the object literal the catch block returns
FallbackRates(t, ref) ==
    NewObj(ref, [thirtyYear |-> Num(650), fifteenYear |-> Num(590),
                 source |-> Str("Fallback (offline)"),
                 lastUpdated |-> IsoString(t), isLive |-> Bool(FALSE)])

\* variant: the slot's snapshot is dropped
CatchBlock_ClearsCache(cr, ct, t, ref) ==
    [cachedRates |-> JNull, ratesCacheTime |-> ct,
     completion |-> Return(FallbackRates(t, ref))]
\* lines 190-201: the catch block; cr and ct are the cache as the try block left it
CatchBlock(cr, ct, t, ref) ==
    [cachedRates |-> cr, ratesCacheTime |-> ct,
     completion |-> Return(FallbackRates(t, ref))]

\* lines 180-181: data.rates.thirtyYear.rate and data.rates.fifteenYear.rate throw
\* a TypeError when data, data.rates or the rate's parent is null or undefined
SnapshotThrows(data) ==
    \/ ~CanGet(data)
    \/ ~CanGet(Get(data, "rates"))
    \/ ~CanGet(Get(Get(data, "rates"), "thirtyYear"))
    \/ ~CanGet(Get(Get(data, "rates"), "fifteenYear"))

\* lines 179-185: the object literal assigned to cachedRates
Snapshot(data, ref) ==
    NewObj(ref, [thirtyYear |-> Get(Get(Get(data, "rates"), "thirtyYear"), "rate"),
                 fifteenYear |-> Get(Get(Get(data, "rates"), "fifteenYear"), "rate"),
                 source |-> Get(data, "source"),
                 lastUpdated |-> Get(data, "lastUpdated"),
                 isLive |-> Bool(~Truthy(Get(data, "error")))])

\* lines 173-175: a response whose ok is false throws
StatusThrows(ok) == ~ok

\* lines 177-188: the try block from the parsed document on
TryFromData(data, cr, ct, t, ref) ==
    IF SnapshotThrows(data)
    THEN [cachedRates |-> cr, ratesCacheTime |-> ct, completion |-> Throw("TypeError")]
    ELSE [cachedRates |-> Snapshot(data, ref), ratesCacheTime |-> Num(t),
          completion |-> Return(Snapshot(data, ref))]

\* lines 171-201: try { ... } catch (error) { ... } around an outcome of the try block
WithCatch(r, t, ref) ==
    IF r.completion.kind = "throw"
    THEN CatchBlock(r.cachedRates, r.ratesCacheTime, t, ref)
    ELSE r

\* the other components of the page take no step
RatesOnly == UNCHANGED <<amortVars, debounceVars, themeVars>>

\* An activation: where it stands (pc), the clock and the cache time it read on
\* entry, the successful fetches completed before it was called (prior), when
\* the activation that returned last before it was called failed, if it did
\* (prevFailAt), the network requests it has issued, and, once it has returned, why its try block
\* threw if it did (cause), the document it parsed, its completion, the clock
\* then, and the path it took: "hit" (line 168), "live" (line 188) or
\* "fallback" (line 194).
IdleCall ==
    [pc |-> "idle", startedAt |-> 0, sawTime |-> JNull, prior |-> <<>>,
     prevFailAt |-> JNull, reqs |-> 0,
     cause |-> "none", body |-> Undefined, completion |-> Pending, doneAt |-> 0,
     path |-> "none"]

InitRates ==
    /\ cachedRates = JNull
    /\ ratesCacheTime = JNull
    /\ now = 1
    /\ ticks = 0
    /\ calls = EmptyBag
    /\ nextRef = 1
    /\ lastDone = IdleCall
    /\ liveDone = <<>>

\* the activations suspended at an await
InFlight == BagToSet(calls)

\* the clock is moved to the next millisecond, or by one millisecond short of
\* the cache duration (the two together make the cache duration)
TickSteps == {1, RATES_CACHE_DURATION - 1}

Tick(d) ==
    /\ ticks < MaxTicks
    /\ now' = now + d
    /\ ticks' = ticks + 1
    /\ UNCHANGED <<cachedRates, ratesCacheTime, calls, nextRef, lastDone, liveDone>>
    /\ RatesOnly

\* lines 165-172: a call, up to its return at line 168 or its first await
CallFetchMortgageRates ==
    /\ LET started == [IdleCall EXCEPT !.startedAt = now, !.sawTime = ratesCacheTime,
                                       !.prior = liveDone,
                                       !.prevFailAt = IF lastDone.path = "fallback"
                                                      THEN Num(lastDone.doneAt) ELSE JNull]
       IN  IF IsFresh(cachedRates, ratesCacheTime, now)
           THEN /\ lastDone' = [started EXCEPT !.pc = "done", !.path = "hit",
                                    !.completion = Return(cachedRates), !.doneAt = now]
                /\ UNCHANGED calls
           ELSE /\ BagCardinality(calls) < MaxInFlight
                /\ nextRef + BagCardinality(calls) <= MaxFetches
                /\ calls' = calls (+) SetToBag({[started EXCEPT !.pc = "awaitFetch",
                                                                 !.reqs = @ + 1]})
                /\ UNCHANGED lastDone
    /\ UNCHANGED <<cachedRates, ratesCacheTime, now, ticks, nextRef, liveDone>>
    /\ RatesOnly

\* the return of the suspended activation a with outcome r (the cache and the
\* completion)
Settle(a, r, cause, body) ==
    /\ lastDone' = [a EXCEPT !.pc = "done", !.completion = r.completion,
                        !.doneAt = now, !.cause = cause, !.body = body,
                        !.path = IF cause = "none" THEN "live" ELSE "fallback"]
    /\ calls' = calls (-) SetToBag({a})
    /\ cachedRates' = r.cachedRates
    /\ ratesCacheTime' = r.ratesCacheTime
    /\ liveDone' = IF cause = "none"
                   THEN Append(liveDone, [ref |-> r.completion.value.ref, at |-> now])
                   ELSE liveDone
    /\ nextRef' = nextRef + 1
    /\ UNCHANGED <<now, ticks>>
    /\ RatesOnly

\* line 172: the promise of fetch() rejects (DNS, connection, abort)
FetchRejects(a) ==
    /\ a.pc = "awaitFetch"
    /\ Settle(a, WithCatch([cachedRates |-> cachedRates, ratesCacheTime |-> ratesCacheTime,
                            completion |-> Throw("TypeError: Failed to fetch")], now, nextRef),
              "transport", Undefined)

\* lines 172-175: fetch() resolves with a response
FetchResolves(a, ok) ==
    /\ a.pc = "awaitFetch"
    /\ IF StatusThrows(ok)
       THEN Settle(a, WithCatch([cachedRates |-> cachedRates, ratesCacheTime |-> ratesCacheTime,
                                 completion |-> Throw("Error: API error")], now, nextRef),
                   "status", Undefined)
       ELSE /\ calls' = (calls (-) SetToBag({a})) (+) SetToBag({[a EXCEPT !.pc = "awaitJson"]})
            /\ UNCHANGED <<cachedRates, ratesCacheTime, now, ticks, nextRef, lastDone, liveDone>>
            /\ RatesOnly

\* line 177: response.json() rejects: the body is not JSON
JsonRejects(a) ==
    /\ a.pc = "awaitJson"
    /\ Settle(a, WithCatch([cachedRates |-> cachedRates, ratesCacheTime |-> ratesCacheTime,
                            completion |-> Throw("SyntaxError")], now, nextRef),
              "parse", Undefined)

\* lines 177-188: response.json() resolves with the parsed document
JsonResolves(a, data) ==
    /\ a.pc = "awaitJson"
    /\ LET r == TryFromData(data, cachedRates, ratesCacheTime, now, nextRef)
       IN  Settle(a, WithCatch(r, now, nextRef),
                  IF r.completion.kind = "throw" THEN "type" ELSE "none", data)

NextRates ==
    \/ \E d \in TickSteps : Tick(d)
    \/ CallFetchMortgageRates
    \/ \E a \in InFlight : FetchRejects(a)
    \/ \E a \in InFlight, ok \in BOOLEAN : FetchResolves(a, ok)
    \/ \E a \in InFlight : JsonRejects(a)
    \/ \E a \in InFlight, data \in Bodies : JsonResolves(a, data)

(* Claims about fetchMortgageRates, checked under SpecRates *)

\* the activations that have been called: those in flight and the last to return
Started == InFlight \cup (IF lastDone.pc = "done" THEN {lastDone} ELSE {})

\* the snapshots the program holds or has just returned
Snapshots ==
    (IF cachedRates = JNull THEN {} ELSE {cachedRates})
    \cup (IF lastDone.pc = "done" THEN {lastDone.completion.value} ELSE {})

Stale(r) == r.sawTime = JNull \/ r.startedAt - r.sawTime.v >= RATES_CACHE_DURATION

\* C1 as stated: a call made less than RATES_CACHE_DURATION after a call that
\* completed with a successful network fetch issues no network request and
\* returns the very object that earlier call returned.
C1_HitReturnsThatCallsObject ==
    \A r \in Started : \A i \in 1..Len(r.prior) :
        r.startedAt - r.prior[i].at < RATES_CACHE_DURATION
            => /\ r.reqs = 0
               /\ r.pc = "done"
               /\ r.completion.value.ref = r.prior[i].ref

\* C1 amended: such a call issues no network request and returns the object in
\* the cache slot, which is the object of the successful fetch that completed
\* last before the call (the earlier call's own object when no other successful
\* fetch completed after it).
C1_HitReturnsCachedObject ==
    \A r \in Started : \A i \in 1..Len(r.prior) :
        r.startedAt - r.prior[i].at < RATES_CACHE_DURATION
            => /\ r.reqs = 0
               /\ r.pc = "done"
               /\ r.path = "hit"
               /\ r.completion.kind = "return"
               /\ r.completion.value.ref = r.prior[Len(r.prior)].ref

\* C1 witness: a hit one millisecond before the first of two overlapping
\* successful fetches expires
C1_Witness ==
    /\ lastDone.path = "hit"
    /\ Len(lastDone.prior) = 2
    /\ lastDone.startedAt - lastDone.prior[1].at = RATES_CACHE_DURATION - 1
    /\ lastDone.completion.value.ref # lastDone.prior[1].ref

\* C2: a call that finds the cache empty, or written RATES_CACHE_DURATION or more
\* before, issues exactly one network request, whether it is still waiting, has
\* returned the fetched snapshot or has failed (no retry).
C2_StaleCallFetchesOnce ==
    \A r \in Started : Stale(r) => r.reqs = 1

\* C2 witness: a call made exactly RATES_CACHE_DURATION after the cache was
\* written has failed and has issued one request
C2_Witness ==
    /\ lastDone.path = "fallback"
    /\ lastDone.sawTime # JNull
    /\ lastDone.startedAt - lastDone.sawTime.v = RATES_CACHE_DURATION
    /\ lastDone.reqs = 1

\* C3: a call whose network request fails by a transport error, a non-2xx
\* status or an unparsable body does not throw: it returns a snapshot with
\* isLive false, source "Fallback (offline)", thirtyYear 6.5 and fifteenYear 5.9.
C3_FailureReturnsFallback ==
    lastDone.cause \in {"transport", "status", "parse"}
        => /\ lastDone.completion.kind = "return"
           /\ Get(lastDone.completion.value, "isLive") = Bool(FALSE)
           /\ Get(lastDone.completion.value, "source") = Str("Fallback (offline)")
           /\ Get(lastDone.completion.value, "thirtyYear") = Num(650)
           /\ Get(lastDone.completion.value, "fifteenYear") = Num(590)

\* C3 witness: a call on a stale cache got a non-2xx answer and returned
C3_Witness ==
    /\ lastDone.cause = "status"
    /\ lastDone.sawTime # JNull
    /\ Stale(lastDone)
    /\ lastDone.completion.kind = "return"

\* C4: a failed call leaves its fallback snapshot and the current
\* time in the cache slot, and a further call within RATES_CACHE_DURATION of the
\* failure issues no network request.
C4_FallbackIsCached ==
    /\ lastDone.path = "fallback"
        => /\ cachedRates = lastDone.completion.value
           /\ ratesCacheTime = Num(lastDone.doneAt)
    /\ \A r \in Started :
        (r.prevFailAt # JNull /\ r.startedAt - r.prevFailAt.v < RATES_CACHE_DURATION)
            => r.reqs = 0

\* the shape section 6 of the specification expects of the document
WellFormed(data) ==
    /\ Get(Get(Get(data, "rates"), "thirtyYear"), "rate").t = "number"
    /\ Get(Get(Get(data, "rates"), "fifteenYear"), "rate").t = "number"
    /\ Get(data, "source").t = "string"
    /\ Get(data, "lastUpdated").t = "string"

\* C5: a 2xx answer whose document deviates from the expected shape makes the
\* call return the fallback snapshot, and no snapshot marked live, returned or
\* cached, has a rate that is not a number.
C5_SchemaDeviationIsFailure ==
    /\ (lastDone.body # Undefined /\ ~WellFormed(lastDone.body))
        => lastDone.path = "fallback"
    /\ \A s \in Snapshots :
        Get(s, "isLive") = Bool(TRUE)
            => Get(s, "thirtyYear").t = "number" /\ Get(s, "fifteenYear").t = "number"

\* C6: every snapshot returned or cached has isLive false if and only if its
\* source is "Fallback (offline)".
C6_NotLiveIffFallbackSource ==
    \A s \in Snapshots :
        (Get(s, "isLive") = Bool(FALSE)) <=> (Get(s, "source") = Str("Fallback (offline)"))

\* a step in which an activation returns the fallback snapshot
FailedReturn == lastDone' # lastDone /\ lastDone'.path = "fallback"

BothOrNeither == (cachedRates = JNull) <=> (ratesCacheTime = JNull)

\* C9: under every interleaving of overlapping calls, cachedRates and
\* ratesCacheTime are both null or both set, a populated slot is never emptied,
\* and a failed call leaves both variables unchanged.
C9_SlotConsistent ==
    [][/\ BothOrNeither
       /\ BothOrNeither'
       /\ cachedRates # JNull => cachedRates' # JNull
       /\ FailedReturn => UNCHANGED <<cachedRates, ratesCacheTime>>]_vars

\* C9 witness: two calls overlapped (both were called before any fetch had
\* completed); one populated the slot, then the other failed and left it so
C9_Witness ==
    /\ lastDone.path = "fallback"
    /\ lastDone.prior = <<>>
    /\ Len(liveDone) = 1
    /\ cachedRates # JNull
    /\ ratesCacheTime = Num(liveDone[1].at)

----------------------------------------------------------------------------
(* Amortization: calculateMonthlyPayment and calculateTotalInterest,          *)
(* js/utils.js 45-62.  A JavaScript number is modelled by its IEEE-754 class: *)
(* NaN, an infinity with its sign, or a finite value with its sign (zero is   *)
(* signed) and its exact magnitude n/d; rounding is not modelled.             *)

NaN == [k |-> "NaN"]
Inf(s) == [k |-> "Infinity", s |-> s]

RECURSIVE Gcd(_, _)
Gcd(a, b) == IF b = 0 THEN a ELSE Gcd(b, a % b)

Fin(s, n, d) == [k |-> "finite", s |-> s, n |-> n \div Gcd(n, d), d |-> d \div Gcd(n, d)]

FromInt(i) == IF i < 0 THEN Fin(-1, -i, 1) ELSE Fin(1, i, 1)

IsNaN(x) == x.k = "NaN"
IsInf(x) == x.k = "Infinity"
\* x === 0 (true of 0 and of -0)
IsZero(x) == x.k = "finite" /\ x.n = 0
\* x < 0
IsNegative(x) == ~IsNaN(x) /\ ~IsZero(x) /\ x.s = -1
\* Number.isFinite(x)
IsFinite(x) == x.k = "finite"

\* -x
Neg(x) == IF IsNaN(x) THEN x ELSE [x EXCEPT !.s = -x.s]

\* a * b
Mul(a, b) ==
    IF IsNaN(a) \/ IsNaN(b) THEN NaN
    ELSE IF IsInf(a) \/ IsInf(b)
         THEN IF IsZero(a) \/ IsZero(b) THEN NaN ELSE Inf(a.s * b.s)
         ELSE Fin(a.s * b.s, a.n * b.n, a.d * b.d)

\* a / b
Div(a, b) ==
    IF IsNaN(a) \/ IsNaN(b) THEN NaN
    ELSE IF IsInf(a) THEN (IF IsInf(b) THEN NaN ELSE Inf(a.s * b.s))
    ELSE IF IsInf(b) THEN Fin(a.s * b.s, 0, 1)
    ELSE IF IsZero(b) THEN (IF IsZero(a) THEN NaN ELSE Inf(a.s * b.s))
    ELSE Fin(a.s * b.s, a.n * b.d, a.d * b.n)

\* a + b
Add(a, b) ==
    IF IsNaN(a) \/ IsNaN(b) THEN NaN
    ELSE IF IsInf(a) THEN (IF IsInf(b) /\ a.s # b.s THEN NaN ELSE a)
    ELSE IF IsInf(b) THEN b
    ELSE LET num == a.s * a.n * b.d + b.s * b.n * a.d
         IN  IF num = 0 THEN Fin(IF a.s = -1 /\ b.s = -1 THEN -1 ELSE 1, 0, 1)
             ELSE IF num < 0 THEN Fin(-1, -num, a.d * b.d)
             ELSE Fin(1, num, a.d * b.d)

\* a - b
Sub(a, b) == Add(a, Neg(b))

RECURSIVE PowNat(_, _)
PowNat(x, n) == IF n = 0 THEN FromInt(1) ELSE Mul(x, PowNat(x, n - 1))

\* Math.pow(x, y) for y a finite integer (numPayments is one whenever years
\* is an integer): 1 for y = 0 whatever x is, the reciprocal for y < 0
MathPow(x, y) ==
    IF IsZero(y) THEN FromInt(1)
    ELSE IF y.s = 1 THEN PowNat(x, y.n)
    ELSE Div(FromInt(1), PowNat(x, y.n))

\* lines 46-57
calculateMonthlyPayment(principal, annualRate, years) ==
    LET monthlyRate == Div(Div(annualRate, FromInt(100)), FromInt(12))
        numPayments == Mul(years, FromInt(12))
    IN  IF IsZero(monthlyRate)
        THEN Div(principal, numPayments)
        ELSE Div(Mul(principal,
                     Mul(monthlyRate, MathPow(Add(FromInt(1), monthlyRate), numPayments))),
                 Sub(MathPow(Add(FromInt(1), monthlyRate), numPayments), FromInt(1)))

\* lines 60-62
calculateTotalInterest(principal, monthlyPayment, years) ==
    Sub(Mul(Mul(monthlyPayment, years), FromInt(12)), principal)

\* The arguments the calculator is called with: loan amounts, annual rates in
\* percent (multiples of 1200, so that the monthly rate is a whole number and
\* the exact magnitudes stay small) and terms in years, on both sides of the
\* documented domain principal > 0, annualRate >= 0, years > 0.
Principals == {-120000, -1200, 0, 1200, 120000}
AnnualRates == {-2400, -1200, 0, 1200}
Years == {-1, 0, 1}

\* the other components of the page take no step
AmortOnly == UNCHANGED <<ratesVars, debounceVars, themeVars>>

InitAmort ==
    /\ amArgs = <<>>
    /\ amResult = Pending
    /\ amInterest = Pending

\* a call calculateMonthlyPayment(p, r, y); the function has no throw statement
\* and calls nothing that throws on numbers, so it completes by returning
CallCalculateMonthlyPayment(p, r, y) ==
    /\ amArgs' = <<p, r, y>>
    /\ amResult' = Return(calculateMonthlyPayment(FromInt(p), FromInt(r), FromInt(y)))
    /\ amInterest' = Pending
    /\ AmortOnly

\* the caller passes the payment on to calculateTotalInterest
CallCalculateTotalInterest ==
    /\ amResult # Pending
    /\ amInterest = Pending
    /\ amInterest' = Return(calculateTotalInterest(FromInt(amArgs[1]), amResult.value,
                                                   FromInt(amArgs[3])))
    /\ UNCHANGED <<amArgs, amResult>>
    /\ AmortOnly

NextAmort ==
    \/ \E p \in Principals, r \in AnnualRates, y \in Years :
          CallCalculateMonthlyPayment(p, r, y)
    \/ CallCalculateTotalInterest

(* Claims about calculateMonthlyPayment, checked under SpecAmort *)

InDomain(args) == args[1] > 0 /\ args[2] >= 0 /\ args[3] > 0

\* C7: a call whose arguments violate principal > 0, annualRate >= 0 or
\* years > 0 does not return a negative or non-finite value: it signals an error.
C7_ViolationIsSignalled ==
    (amResult # Pending /\ ~InDomain(amArgs))
        => \/ amResult.kind = "throw"
           \/ (IsFinite(amResult.value) /\ ~IsNegative(amResult.value))

----------------------------------------------------------------------------
(* debounce, js/utils.js 65-75 *)

MaxWait == 2
MaxDebouncedCalls == 3
MaxDebounceClock == 4

\* the arguments executedFunction is called with
DebounceArgs == {"a", "b"}

\* clearTimeout(id): the timer with that id, if it is still pending, is dropped;
\* undefined and the id of a timer that has fired drop nothing
\* (variant: clearTimeout drops nothing)
ClearTimeout_Noop(ts, id) == ts
ClearTimeout(ts, id) == {x \in ts : Num(x.id) # id}

\* setTimeout(later, wait) at clock t: later closes over args; call is the place
\* in dlog of the call of executedFunction that created it
SetTimeout(ts, id, t, wait, args, call) ==
    ts \cup {[id |-> id, due |-> t + wait, args |-> args, call |-> call]}

\* the other components of the page take no step
DebounceOnly == UNCHANGED <<ratesVars, amortVars, themeVars>>

\* debounce(func, wait) has returned executedFunction; timeout is undefined
InitDebounce ==
    /\ dWait \in 0..MaxWait
    /\ dNow = 0
    /\ timeout = Undefined
    /\ nextTimer = 1
    /\ timers = {}
    /\ dlog = <<>>

DebounceTick ==
    /\ dNow < MaxDebounceClock
    /\ dNow' = dNow + 1
    /\ UNCHANGED <<dWait, timeout, nextTimer, timers, dlog>>
    /\ DebounceOnly

\* lines 67-74: executedFunction(args)
ExecutedFunction(args) ==
    /\ nextTimer <= MaxDebouncedCalls
    /\ timers' = SetTimeout(ClearTimeout(timers, timeout), nextTimer, dNow, dWait, args,
                            Len(dlog) + 1)
    /\ timeout' = Num(nextTimer)
    /\ nextTimer' = nextTimer + 1
    /\ dlog' = Append(dlog, [ev |-> "call", args |-> args, at |-> dNow, call |-> Len(dlog) + 1])
    /\ UNCHANGED <<dWait, dNow>>
    /\ DebounceOnly

\* lines 68-71: a pending timer that is due fires and runs later()
Later(x) ==
    /\ x \in timers
    /\ x.due <= dNow
    /\ timers' = ClearTimeout(timers \ {x}, timeout)
    /\ dlog' = Append(dlog, [ev |-> "func", args |-> x.args, at |-> dNow, call |-> x.call])
    /\ UNCHANGED <<dWait, dNow, timeout, nextTimer>>
    /\ DebounceOnly

NextDebounce ==
    \/ DebounceTick
    \/ \E args \in DebounceArgs : ExecutedFunction(args)
    \/ \E x \in timers : Later(x)

(* Claim about debounce, checked under SpecDebounce *)

\* C10: func is invoked only when wait has elapsed since a call with no newer
\* call in between, once per burst, with that call's arguments; a call that
\* arrives while a timer is pending cancels it, so at most one timer is pending
\* and the earlier call's invocation does not happen.  In the log, every
\* invocation of func comes right after the call it belongs to.
C10_Debounce ==
    /\ Cardinality(timers) <= 1
    /\ \A x \in timers : timeout = Num(x.id) /\ x.call = Len(dlog)
    /\ \A i \in 1..Len(dlog) :
        dlog[i].ev = "func"
            => /\ i > 1
               /\ dlog[i - 1].ev = "call"
               /\ dlog[i].call = i - 1
               /\ dlog[i].args = dlog[i - 1].args
               /\ dlog[i].at - dlog[i - 1].at >= dWait

\* C10 witness: a second call with other arguments arrived before the first
\* call's timer was due, and func has then run once, with the second arguments
C10_Witness ==
    /\ Len(dlog) >= 3
    /\ dlog[1].ev = "call" /\ dlog[2].ev = "call" /\ dlog[3].ev = "func"
    /\ dlog[2].args # dlog[1].args
    /\ dlog[2].at > dlog[1].at
    /\ dlog[2].at < dlog[1].at + dWait
    /\ dlog[3].args = dlog[2].args

----------------------------------------------------------------------------
(* Theme toggle: the script that defines window.ThemeManager *)

MaxThemeOps == 3

\* the arguments ThemeManager.set is called with
ThemeArgs == {Str("dark"), Str("light"), Str("sepia"), Str("")}

\* lines 6-8: localStorage.getItem(THEME_KEY) || 'dark'
getSavedTheme(stored) == IF Truthy(stored) THEN stored ELSE Str("dark")

\* line 29: document.documentElement.getAttribute('data-theme') || 'dark'
CurrentTheme(attr) == IF Truthy(attr) THEN attr ELSE Str("dark")

\* line 30: current === 'dark' ? 'light' : 'dark'
\* (variant: 'light' is the theme told apart from the rest)
NewTheme_Swapped(current) == IF current = Str("light") THEN Str("dark") ELSE Str("light")
NewTheme(current) == IF current = Str("dark") THEN Str("light") ELSE Str("dark")

\* lines 17-25: updateToggleButton(theme) on the button, when the page has one
updateToggleButton(btn, theme) ==
    IF btn = JNull THEN btn
    ELSE [btn EXCEPT !.textContent = IF theme = Str("dark") THEN "sun" ELSE "moon",
                     !.ariaLabel = IF theme = Str("dark") THEN "Switch to light mode"
                                   ELSE "Switch to dark mode"]

\* the button as the page's markup has it
FreshButton == [t |-> "element", textContent |-> "", ariaLabel |-> "", onclick |-> FALSE]

\* the other components of the page take no step
ThemeOnly == UNCHANGED <<ratesVars, amortVars, debounceVars>>

\* a page is loaded: nothing, or a theme chosen on an earlier visit, is stored
InitTheme ==
    /\ storedTheme \in {JNull, Str("dark"), Str("light")}
    /\ dataTheme = JNull
    /\ themeInit = FALSE
    /\ toggleBtn \in {JNull, FreshButton}
    /\ themeLog = <<>>

\* lines 11-14: applyTheme(theme)
applyTheme(theme) ==
    /\ dataTheme' = theme
    /\ toggleBtn' = updateToggleButton(toggleBtn, theme)

\* lines 36-45: initTheme(), once per page
initTheme ==
    /\ ~themeInit
    /\ Len(themeLog) < MaxThemeOps
    /\ dataTheme' = getSavedTheme(storedTheme)
    /\ toggleBtn' = IF toggleBtn = JNull THEN toggleBtn
                    ELSE [updateToggleButton(toggleBtn, getSavedTheme(storedTheme))
                            EXCEPT !.onclick = TRUE]
    /\ themeInit' = TRUE
    /\ themeLog' = Append(themeLog, [op |-> "init", arg |-> Undefined])
    /\ UNCHANGED storedTheme
    /\ ThemeOnly

\* lines 28-33: toggleTheme(), called as ThemeManager.toggle (byClick FALSE) or
\* by a click on the button once initTheme has registered it (byClick TRUE)
toggleTheme(byClick) ==
    /\ byClick => (toggleBtn # JNull /\ toggleBtn.onclick)
    /\ Len(themeLog) < MaxThemeOps
    /\ storedTheme' = NewTheme(CurrentTheme(dataTheme))
    /\ applyTheme(NewTheme(CurrentTheme(dataTheme)))
    /\ themeLog' = Append(themeLog, [op |-> "toggle", arg |-> Bool(byClick)])
    /\ UNCHANGED themeInit
    /\ ThemeOnly

\* lines 57-60: ThemeManager.set(theme)
setTheme(theme) ==
    /\ Len(themeLog) < MaxThemeOps
    /\ storedTheme' = theme
    /\ applyTheme(theme)
    /\ themeLog' = Append(themeLog, [op |-> "set", arg |-> theme])
    /\ UNCHANGED themeInit
    /\ ThemeOnly

\* the page is loaded again: the document is new, localStorage is kept
Reload ==
    /\ themeLog # <<>>
    /\ dataTheme' = JNull
    /\ themeInit' = FALSE
    /\ toggleBtn' = IF toggleBtn = JNull THEN toggleBtn ELSE FreshButton
    /\ themeLog' = <<>>
    /\ UNCHANGED storedTheme
    /\ ThemeOnly

NextTheme ==
    \/ initTheme
    \/ \E byClick \in BOOLEAN : toggleTheme(byClick)
    \/ \E theme \in ThemeArgs : setTheme(theme)
    \/ Reload

(* Claim about the theme, checked under SpecTheme *)

InitStep == themeLog' = Append(themeLog, [op |-> "init", arg |-> Undefined])
ToggleStep == \E b \in BOOLEAN : themeLog' = Append(themeLog, [op |-> "toggle", arg |-> Bool(b)])

\* C8 as stated: startup applies the stored value, or "dark" when nothing is
\* stored; once initTheme has run, ThemeManager.get() equals the data-theme
\* attribute after every toggle and set; each toggle stores and applies "light"
\* when "dark" is applied and "dark" when anything else is.
C8_GetEqualsApplied ==
    [][/\ InitStep => dataTheme' = (IF storedTheme = JNull THEN Str("dark") ELSE storedTheme)
       /\ themeInit' => getSavedTheme(storedTheme') = dataTheme'
       /\ (ToggleStep /\ themeInit)
            => /\ storedTheme' = (IF dataTheme = Str("dark") THEN Str("light") ELSE Str("dark"))
               /\ dataTheme' = storedTheme']_vars

\* C8 amended: startup applies the stored value, or "dark" when nothing or the
\* empty string is stored; once initTheme has run, ThemeManager.get() equals the
\* data-theme attribute after every toggle and set unless the attribute is the
\* empty string (after ThemeManager.set("")), when get() returns "dark"; each
\* toggle stores and applies "light" when "dark" or the empty string is applied
\* and "dark" when anything else is.
C8_GetEqualsAppliedUnlessEmpty ==
    [][/\ InitStep => dataTheme' = (IF storedTheme \in {JNull, Str("")} THEN Str("dark")
                                    ELSE storedTheme)
       /\ themeInit' => IF dataTheme' = Str("")
                        THEN storedTheme' = Str("") /\ getSavedTheme(storedTheme') = Str("dark")
                        ELSE getSavedTheme(storedTheme') = dataTheme'
       /\ (ToggleStep /\ themeInit)
            => /\ storedTheme' = (IF dataTheme \in {Str("dark"), Str("")} THEN Str("light")
                                  ELSE Str("dark"))
               /\ dataTheme' = storedTheme']_vars

\* C8 witness: after initTheme, a set of a third theme and a toggle, "dark" is
\* stored and applied
C8_Witness ==
    /\ themeInit
    /\ Len(themeLog) = 3
    /\ themeLog[1].op = "init"
    /\ themeLog[2] = [op |-> "set", arg |-> Str("sepia")]
    /\ themeLog[3].op = "toggle"
    /\ storedTheme = Str("dark")
    /\ dataTheme = Str("dark")

----------------------------------------------------------------------------
(* Specifications: one per component; the other components stay as loaded *)

ThemeAtRest ==
    /\ storedTheme = JNull /\ dataTheme = JNull /\ themeInit = FALSE
    /\ toggleBtn = JNull /\ themeLog = <<>>

DebounceAtRest ==
    /\ dWait = 0 /\ dNow = 0 /\ timeout = Undefined /\ nextTimer = 1
    /\ timers = {} /\ dlog = <<>>

InitRatesPage == InitRates /\ InitAmort /\ DebounceAtRest /\ ThemeAtRest
SpecRates == InitRatesPage /\ [][NextRates]_vars

InitAmortPage == InitAmort /\ InitRates /\ DebounceAtRest /\ ThemeAtRest
SpecAmort == InitAmortPage /\ [][NextAmort]_vars

InitDebouncePage == InitDebounce /\ InitRates /\ InitAmort /\ ThemeAtRest
SpecDebounce == InitDebouncePage /\ [][NextDebounce]_vars

InitThemePage == InitTheme /\ InitRates /\ InitAmort /\ DebounceAtRest
SpecTheme == InitThemePage /\ [][NextTheme]_vars

=============================================================================
